---- MODULE Spec2Model ----
(***************************************************************************)
(* BrainStack: the answer grader (PracticeTestQuestion.submit_answer) and  *)
(* the practice-test question generator                                    *)
(* (AIService.generate_practice_test_questions).                           *)
(*                                                                         *)
(* Python strings are modelled as sequences of one-character strings.      *)
(***************************************************************************)
EXTENDS Integers, Sequences, FiniteSets, TLC

\* ------------------------------------------------------------------------
\* Bounds of the model
\* ------------------------------------------------------------------------
\* longest short answer string drawn for the grader
MaxLen == 3
\* most characters of the long reference answer replaced in a submission
MaxEdits == 3
\* most characters appended to a long submission
MaxAppend == 1
\* longest whitespace run inside a spaced answer string
MaxRun == 2
\* most lines of a language-model response
MaxLines == 4
\* largest requested number of questions
MaxN == 3

\* ------------------------------------------------------------------------
\* Python string primitives
\* ------------------------------------------------------------------------
Min(a, b) == IF a <= b THEN a ELSE b

SetMin(S) == CHOOSE x \in S : \A y \in S : x <= y

SetMax(S) == CHOOSE x \in S : \A y \in S : x >= y

\* characters for which str.isspace() holds (and which \s matches)
Whitespace == {" ", "\t", "\n", "\r"}

\* characters at which str.splitlines() breaks a line
LineBreaks == {"\n", "\r"}

\* str.strip(): drop leading and trailing whitespace
Strip(s) ==
    LET keep == {i \in 1..Len(s) : s[i] \notin Whitespace}
    IN  IF keep = {} THEN <<>> ELSE SubSeq(s, SetMin(keep), SetMax(keep))

LowerChar(c) ==
    CASE c = "A" -> "a"
      [] c = "B" -> "b"
      [] c = "Q" -> "q"
      [] OTHER -> c

\* str.lower()
Lower(s) == [i \in 1..Len(s) |-> LowerChar(s[i])]

RECURSIVE DropWs(_)
DropWs(s) ==
    IF s # <<>> /\ Head(s) \in Whitespace THEN DropWs(Tail(s)) ELSE s

\* re.sub(r'\s+', ' ', s): every maximal whitespace run becomes one space
RECURSIVE CollapseWs(_)
CollapseWs(s) ==
    IF s = <<>> THEN <<>>
    ELSE IF Head(s) \in Whitespace
         THEN <<" ">> \o CollapseWs(DropWs(Tail(s)))
         ELSE <<Head(s)>> \o CollapseWs(Tail(s))

\* Variant of normalize: the lowercasing is left out
normalizeNoLower(t) == CollapseWs(Strip(t))

\* the lambda of submit_answer
normalize(t) == CollapseWs(Lower(Strip(t)))

\* str.startswith(p)
StartsWith(s, p) == Len(s) >= Len(p) /\ SubSeq(s, 1, Len(p)) = p

\* str.splitlines(): break at \n, \r and \r\n; no empty last line
RECURSIVE SplitLines(_)
SplitLines(s) ==
    IF s = <<>> THEN <<>>
    ELSE LET brks == {i \in 1..Len(s) : s[i] \in LineBreaks}
         IN  IF brks = {} THEN <<s>>
             ELSE LET b == SetMin(brks)
                      e == IF s[b] = "\r" /\ b < Len(s) /\ s[b + 1] = "\n"
                           THEN b + 1 ELSE b
                  IN  <<SubSeq(s, 1, b - 1)>>
                          \o SplitLines(SubSeq(s, e + 1, Len(s)))

\* ------------------------------------------------------------------------
\* difflib.SequenceMatcher(None, a, b), as used by submit_answer.  Positions
\* are 1-based and ranges are inclusive: a[alo..ahi], b[blo..bhi].  (The
\* autojunk heuristic only acts on a second string of 200 characters or
\* more, beyond the strings drawn here.)
\* ------------------------------------------------------------------------
\* length of the common run of a and b that starts at a[i], b[j]
RECURSIVE RunLen(_, _, _, _, _, _)
RunLen(a, b, i, j, ahi, bhi) ==
    IF i > ahi \/ j > bhi \/ a[i] # b[j] THEN 0
    ELSE 1 + RunLen(a, b, i + 1, j + 1, ahi, bhi)

\* the longest matching block; of the longest ones the one that starts
\* earliest in a and, of those, earliest in b
find_longest_match(a, b, alo, ahi, blo, bhi) ==
    LET pairs == (alo..ahi) \X (blo..bhi)
        run == [p \in pairs |-> RunLen(a, b, p[1], p[2], ahi, bhi)]
        best == IF pairs = {} THEN 0 ELSE SetMax({run[p] : p \in pairs})
    IN  IF best = 0 THEN [i |-> alo, j |-> blo, size |-> 0]
        ELSE LET bi == SetMin({p[1] : p \in {q \in pairs : run[q] = best}})
                 bj == SetMin({p[2] : p \in {q \in pairs :
                                               run[q] = best /\ q[1] = bi}})
             IN  [i |-> bi, j |-> bj, size |-> best]

\* get_matching_blocks: the longest block, then the pieces to its left and
\* to its right; the value is the sum of the block sizes
RECURSIVE MatchCount(_, _, _, _, _, _)
MatchCount(a, b, alo, ahi, blo, bhi) ==
    LET m == find_longest_match(a, b, alo, ahi, blo, bhi)
    IN  IF m.size = 0 THEN 0
        ELSE m.size
             + (IF alo < m.i /\ blo < m.j
                THEN MatchCount(a, b, alo, m.i - 1, blo, m.j - 1) ELSE 0)
             + (IF m.i + m.size <= ahi /\ m.j + m.size <= bhi
                THEN MatchCount(a, b, m.i + m.size, ahi, m.j + m.size, bhi)
                ELSE 0)

Matches(a, b) == MatchCount(a, b, 1, Len(a), 1, Len(b))

\* Variant of ratio: 1.0 as soon as one of the strings is empty
ratioEmptyIsOne(a, b) ==
    IF Len(a) = 0 \/ Len(b) = 0 THEN [num |-> 1, den |-> 1]
    ELSE [num |-> 2 * Matches(a, b), den |-> Len(a) + Len(b)]

\* SequenceMatcher.ratio(): 2.0 * matches / length, 1.0 when both are empty;
\* kept as the exact fraction num / den
ratio(a, b) ==
    IF Len(a) + Len(b) = 0 THEN [num |-> 1, den |-> 1]
    ELSE [num |-> 2 * Matches(a, b), den |-> Len(a) + Len(b)]

\* the literal 0.85 of submit_answer, as ThresholdNum / ThresholdDen
ThresholdNum == 85

ThresholdDen == 100

\* r >= 0.85: the double nearest to num/den is >= the double 0.85 exactly
\* when the fraction is >= 85/100, for every length a string can have.
\* (AboveThreshold is the variant with > in place of >=.)
AboveThreshold(r) == r.num * ThresholdDen > ThresholdNum * r.den

AtLeastThreshold(r) == r.num * ThresholdDen >= ThresholdNum * r.den

\* Variant of Grade: only the submitted answer is normalized
GradeRawReference(user_ans, correct_ans) ==
    LET user_norm == normalize(user_ans)
    IN  user_norm = correct_ans
            \/ AtLeastThreshold(ratio(user_norm, correct_ans))

\* the verdict of submit_answer for a submitted and a reference answer
Grade(user_ans, correct_ans) ==
    LET user_norm == normalize(user_ans)
        correct_norm == normalize(correct_ans)
    IN  user_norm = correct_norm
            \/ AtLeastThreshold(ratio(user_norm, correct_norm))

\* ------------------------------------------------------------------------
\* State
\* ------------------------------------------------------------------------
VARIABLES
    \* PracticeTestQuestion: the fields submit_answer reads and writes
    correct_answer, user_answer, is_correct,
    \* the value the last submit_answer call returned
    verdict,
    \* generate_practice_test_questions: arguments, position, locals
    flashcards, num_questions, pc, response, requests_sent,
    lines, idx, current_question, questions,
    \* what the call returned or raised
    result,
    \* create_practice_test: the deck's cards, the client's request, the
    \* position in the handler, the HTTP status answered, the stored tests
    deck_cards, request, rpc, http_status, stored_tests,
    \* PracticeTest: its questions, the next fresh question id, and the
    \* last method call with its arguments and return value
    test_questions, next_id, last_call,
    \* PracticeTest: is_completed, completed_at and score (an Optional is a
    \* sequence of at most one value), and what datetime.now() returns
    is_completed, completed_at, score, now,
    \* the card routes: the cards of the user's deck in storage, the next
    \* uuid4, the last response, the user's study totals
    stored_cards, next_uuid, reply, user_stats,
    \* concurrent requests: the user's decks in the data file, and each
    \* request's operation, position and local copies
    file_decks, proc

graderVars == <<correct_answer, user_answer, is_correct, verdict>>

genVars == <<flashcards, num_questions, pc, response, requests_sent,
             lines, idx, current_question, questions, result>>

routeVars == <<deck_cards, request, rpc, http_status, stored_tests>>

testVars == <<test_questions, next_id, last_call,
              is_completed, completed_at, score, now>>

deckVars == <<stored_cards, next_uuid, reply, user_stats>>

raceVars == <<file_decks, proc>>

vars == <<correct_answer, user_answer, is_correct, verdict,
          flashcards, num_questions, pc, response, requests_sent,
          lines, idx, current_question, questions, result,
          deck_cards, request, rpc, http_status, stored_tests,
          test_questions, next_id, last_call,
          is_completed, completed_at, score, now,
          stored_cards, next_uuid, reply, user_stats,
          file_decks, proc>>

\* Python's None in a string-valued field
None == <<"None">>

NoCall == [op |-> "none", qid |-> 0, ans |-> <<>>, ret |-> "None"]

\* no create_practice_test request is being handled
RouteIdle ==
    /\ deck_cards = <<>>
    /\ request = [kind |-> "none", ai_service |-> FALSE, requested |-> 0]
    /\ rpc = "idle"
    /\ http_status = 0
    /\ stored_tests = <<>>

\* no PracticeTest is in use
TestIdle ==
    /\ test_questions = <<>>
    /\ next_id = 1
    /\ last_call = NoCall
    /\ is_completed = FALSE
    /\ completed_at = <<>>
    /\ score = <<>>
    /\ now = 0

\* the last request answered: the route, the status of the response, the
\* id of the card in the response body, the results in the request body
NoReply == [route |-> "none", status |-> 0, card_id |-> 0, results |-> <<>>]

NoStats == [total_study_sessions |-> 0, total_cards_studied |-> 0,
            total_correct |-> 0, total_incorrect |-> 0]

\* no card route has been called
DeckIdle ==
    /\ stored_cards = <<>>
    /\ next_uuid = 1
    /\ reply = NoReply
    /\ user_stats = NoStats

\* no concurrent requests
RaceIdle ==
    /\ file_decks = <<>>
    /\ proc = <<>>

\* ------------------------------------------------------------------------
\* The grader: PracticeTestQuestion.submit_answer
\* ------------------------------------------------------------------------
GradeAlphabet == {"a", "A", " "}

\* every string over GradeAlphabet of at most MaxLen characters
ShortStrings == UNION {[1..n -> GradeAlphabet] : n \in 0..MaxLen}

Rep(s, n) == [i \in 1..(n * Len(s)) |-> s[((i - 1) % Len(s)) + 1]]

\* a reference answer of 20 characters
LongRef == Rep(<<"a", "b">>, 10)

EditPositions == {10, 18, 19, 20}

\* LongRef with the characters at the positions S replaced by "x"
Subst(s, S) == [i \in 1..Len(s) |-> IF i \in S THEN "x" ELSE s[i]]

\* submissions that are LongRef with some characters mistyped and some added
LongStrings ==
    {Subst(LongRef, S) \o Rep(<<"x">>, e) :
        S \in {T \in SUBSET EditPositions : Cardinality(T) <= MaxEdits},
        e \in 0..MaxAppend}

\* two words with a run of blanks or tabs between them
SpacedStrings ==
    {lead \o <<"a">> \o Rep(<<w>>, k) \o <<"A">> :
        lead \in {<<>>, <<"\t">>}, w \in {" ", "\t"}, k \in 1..MaxRun}

\* the first submissions tried against a reference answer
AnswersFor(ref) ==
    IF ref = LongRef THEN LongStrings ELSE ShortStrings \cup SpacedStrings

\* the submissions tried on a question that already has an answer
Retries == {<<>>, <<"A", " ">>, LongRef, Subst(LongRef, {18, 19, 20})}

BoolStr(b) == IF b THEN "True" ELSE "False"

GraderIdle ==
    /\ correct_answer = <<>>
    /\ user_answer = None
    /\ is_correct = "None"
    /\ verdict = "None"

\* PracticeTestQuestion(question=..., correct_answer=c): not answered yet
InitGrader ==
    /\ correct_answer \in ShortStrings \cup SpacedStrings \cup {LongRef}
    /\ user_answer = None
    /\ is_correct = "None"
    /\ verdict = "None"
    /\ flashcards = <<>>
    /\ num_questions = 0
    /\ pc = "idle"
    /\ response = [outcome |-> "none", level |-> "none", kind |-> "none",
                   content |-> <<>>]
    /\ requests_sent = 0
    /\ lines = <<>>
    /\ idx = 0
    /\ current_question = <<>>
    /\ questions = <<>>
    /\ result = [status |-> "none", value |-> <<>>, exc |-> "none"]
    /\ RouteIdle
    /\ TestIdle
    /\ DeckIdle
    /\ RaceIdle

submit_answer(ans) ==
    /\ user_answer' = ans
    /\ is_correct' = BoolStr(Grade(ans, correct_answer))
    /\ verdict' = is_correct'
    /\ UNCHANGED correct_answer
    /\ UNCHANGED genVars
    /\ UNCHANGED <<routeVars, testVars, deckVars, raceVars>>

NextGrader ==
    \E ans \in (IF user_answer = None THEN AnswersFor(correct_answer)
                ELSE Retries) :
        submit_answer(ans)

SpecGrader == InitGrader /\ [][NextGrader]_vars

\* ------------------------------------------------------------------------
\* C1: submit_answer returns true exactly when the normalized answers are
\* equal or their similarity 2*M/T is at least 0.85 (17/20), the boundary
\* included: 2*M/T = 0.85 is accepted, anything below it is rejected.
\* ------------------------------------------------------------------------
NormUser == normalize(user_answer)

NormCorrect == normalize(correct_answer)

GradeRule ==
    verdict # "None" =>
        LET M == Matches(NormUser, NormCorrect)
            T == Len(NormUser) + Len(NormCorrect)
        IN  /\ verdict \in {"True", "False"}
            /\ (verdict = "True") <=> (NormUser = NormCorrect \/ 40 * M >= 17 * T)

\* a submission whose similarity to the reference is exactly 0.85 was accepted
GradeBoundaryAccepted ==
    /\ verdict = "True"
    /\ NormUser # NormCorrect
    /\ 40 * Matches(NormUser, NormCorrect)
           = 17 * (Len(NormUser) + Len(NormCorrect))

\* ------------------------------------------------------------------------
\* C15: grading a string against itself as the reference returns true.
\* ------------------------------------------------------------------------
GradeReflexive ==
    (verdict # "None" /\ user_answer = correct_answer) => verdict = "True"

\* a reference with a capital and blanks was submitted as its own answer
SelfGraded ==
    /\ verdict = "True"
    /\ user_answer = correct_answer
    /\ NormCorrect # correct_answer

\* ------------------------------------------------------------------------
\* C16: normalization is idempotent and applied to both answers, so the
\* verdict is the same when either answer is replaced by its normalized
\* form, and two answers with the same words up to letter case (they
\* differ only in case, in whitespace runs or in leading and trailing
\* whitespace) grade as correct.
\* ------------------------------------------------------------------------
\* the maximal runs of non-whitespace characters of s, in lower case
RECURSIVE Words(_)
Words(s) ==
    IF s = <<>> THEN <<>>
    ELSE IF Head(s) \in Whitespace THEN Words(Tail(s))
    ELSE LET stop == SetMin({i \in 1..Len(s) : s[i] \in Whitespace}
                               \cup {Len(s) + 1})
         IN  <<Lower(SubSeq(s, 1, stop - 1))>>
                 \o Words(SubSeq(s, stop, Len(s)))

NormalizationTolerant ==
    verdict # "None" =>
        /\ normalize(NormUser) = NormUser
        /\ normalize(NormCorrect) = NormCorrect
        /\ verdict = BoolStr(Grade(NormUser, correct_answer))
        /\ verdict = BoolStr(Grade(user_answer, NormCorrect))
        /\ Words(user_answer) = Words(correct_answer) => verdict = "True"

\* two answers that differ in case and in their whitespace were accepted
SpacingIgnored ==
    /\ verdict = "True"
    /\ user_answer # correct_answer
    /\ Len(user_answer) > Len(correct_answer)
    /\ Len(Words(user_answer)) = 2
    /\ Words(user_answer) = Words(correct_answer)
    /\ Lower(user_answer) # Lower(correct_answer)

\* ------------------------------------------------------------------------
\* C17: an answer that normalizes to the empty string is rejected against
\* a reference that does not, and accepted against one that does.
\* ------------------------------------------------------------------------
EmptyAnswerRule ==
    (verdict # "None" /\ NormUser = <<>>) =>
        IF NormCorrect = <<>> THEN verdict = "True" ELSE verdict = "False"

\* blanks were submitted against a reference with a letter, and rejected
BlankRejected ==
    /\ verdict = "False"
    /\ user_answer # <<>>
    /\ NormUser = <<>>
    /\ NormCorrect # <<>>

\* ------------------------------------------------------------------------
\* The generator: AIService.generate_practice_test_questions
\* ------------------------------------------------------------------------
\* most flashcards passed to the generator
MaxCards == 2

Deck == << [front |-> <<"a">>, back |-> <<"1">>],
           [front |-> <<"b">>, back |-> <<"2">>],
           [front |-> <<"c">>, back |-> <<"3">>] >>

FlashcardLists == {SubSeq(Deck, 1, k) : k \in 0..MaxCards}

\* "What is the answer to: "
FallbackPrefix ==
    <<"W", "h", "a", "t", " ", "i", "s", " ", "t", "h", "e", " ",
      "a", "n", "s", "w", "e", "r", " ", "t", "o", ":", " ">>

\* range(min(num_questions, len(flashcards))) indexes every card
\* (FallbackCountAll is the variant that counts range(num_questions))
FallbackCountAll(cards, n) == IF n > 0 THEN n ELSE 0

FallbackCount(cards, n) ==
    IF Min(n, Len(cards)) > 0 THEN Min(n, Len(cards)) ELSE 0

\* _fallback_question_generation
fallback_question_generation(cards, n) ==
    [k \in 1..FallbackCount(cards, n) |->
        [question |-> FallbackPrefix
                          \o cards[((k - 1) % Len(cards)) + 1].front
                          \o <<"?">>,
         correct_answer |-> cards[((k - 1) % Len(cards)) + 1].back]]

\* questions[:n] (SliceAll is the variant that returns the whole list)
SliceAll(s, n) == s

SliceTo(s, n) ==
    IF n >= 0 THEN SubSeq(s, 1, Min(n, Len(s)))
    ELSE SubSeq(s, 1, Len(s) + n)

\* --- what the language model can answer ---------------------------------
LineKinds == {"Qtext", "Qempty", "A", "blank", "other"}

Digit(p) == <<"1", "2", "3", "4", "5", "6", "7", "8", "9">>[p]

\* the p-th line of a response, of a given kind; the texts of two lines
\* of a response differ
LineOf(kind, p) ==
    CASE kind = "Qtext"  -> <<" ", "Q", ":", " ", "x", Digit(p)>>
      [] kind = "Qempty" -> <<"Q", ":", " ">>
      [] kind = "A"      -> <<"A", ":", "y", Digit(p), "\t">>
      [] kind = "blank"  -> <<" ">>
      [] kind = "other"  -> <<"q", ":", "z", Digit(p)>>

LineEnd(p) == IF p = 2 THEN <<"\r", "\n">> ELSE <<"\n">>

RECURSIVE JoinLines(_, _)
JoinLines(kinds, p) ==
    IF p > Len(kinds) THEN <<>>
    ELSE LineOf(kinds[p], p) \o LineEnd(p) \o JoinLines(kinds, p + 1)

Contents ==
    {JoinLines(kinds, 1) :
        kinds \in UNION {[1..k -> LineKinds] : k \in 0..MaxLines}}

\* decoded bodies that are not {"choices": [{"message": {"content": str}}]}:
\* the place where the body departs from that shape, and what is there
BadShapes ==
    ({"result"} \X {"null", "number", "string", "list"})
        \cup ({"choices"} \X {"absent", "null", "number", "string",
                              "empty_list", "dict"})
        \cup ({"choice0"} \X {"null", "number", "string", "list"})
        \cup ({"message"} \X {"absent", "null", "number", "string", "list"})
        \cup ({"content"} \X {"absent", "null", "number", "list", "dict"})

Response(outcome, level, kind, content) ==
    [outcome |-> outcome, level |-> level, kind |-> kind, content |-> content]

Responses ==
    {Response(o, "none", "none", <<>>) :
        o \in {"network_error", "http_error", "undecodable"}}
      \cup {Response("decoded", sh[1], sh[2], <<>>) : sh \in BadShapes}
      \cup {Response("decoded", "content", "string", c) : c \in Contents}

\* what lines 108-111 do with a decoded body: "fallback" (the return of
\* line 109), "content" (line 111 yields a string) or the exception raised
ExtractOutcome(r) ==
    CASE r.level = "result" ->
            \* 'choices' not in result
            IF r.kind \in {"null", "number"} THEN "TypeError" ELSE "fallback"
      [] r.level = "choices" ->
            \* len(result['choices']) == 0, then result['choices'][0][...]
            IF r.kind \in {"absent", "empty_list"} THEN "fallback"
            ELSE IF r.kind = "dict" THEN "KeyError" ELSE "TypeError"
      [] r.level = "choice0" -> "TypeError"
      [] r.level = "message" ->
            IF r.kind = "absent" THEN "KeyError" ELSE "TypeError"
      [] r.level = "content" ->
            IF r.kind = "string" THEN "content"
            ELSE IF r.kind = "absent" THEN "KeyError" ELSE "AttributeError"

\* except (requests.RequestException, json.JSONDecodeError, KeyError)
Handled == {"ConnectionError", "HTTPError", "JSONDecodeError", "KeyError"}

Returned(v) == [status |-> "returned", value |-> v, exc |-> "none"]

\* Variant of Raise: a handled failure of the first request is retried
RaiseRetry(e) ==
    IF e \in Handled /\ requests_sent = 0
    THEN /\ pc' = "post"
         /\ UNCHANGED result
    ELSE IF e \in Handled
    THEN /\ pc' = "ret139"
         /\ result' = Returned(fallback_question_generation(flashcards,
                                                            num_questions))
    ELSE /\ pc' = "raised"
         /\ result' = [status |-> "raised", value |-> <<>>, exc |-> e]

\* an exception raised inside the try block: the handler of line 137
\* returns the fallback, any other exception leaves the function
Raise(e) ==
    IF e \in Handled
    THEN /\ pc' = "ret139"
         /\ result' = Returned(fallback_question_generation(flashcards,
                                                            num_questions))
    ELSE /\ pc' = "raised"
         /\ result' = [status |-> "raised", value |-> <<>>, exc |-> e]

InitGen ==
    /\ GraderIdle
    /\ flashcards \in FlashcardLists
    /\ num_questions \in (-1)..MaxN
    /\ pc = "call"
    /\ response = Response("none", "none", "none", <<>>)
    /\ requests_sent = 0
    /\ lines = <<>>
    /\ idx = 0
    /\ current_question = <<>>
    /\ questions = <<>>
    /\ result = [status |-> "none", value |-> <<>>, exc |-> "none"]
    /\ RouteIdle
    /\ TestIdle
    /\ DeckIdle
    /\ RaceIdle

\* lines 51-78: no flashcards, no request
Call ==
    /\ pc = "call"
    /\ IF flashcards = <<>>
       THEN /\ pc' = "ret52"
            /\ result' = Returned(<<>>)
       ELSE /\ pc' = "post"
            /\ UNCHANGED result
    /\ UNCHANGED <<flashcards, num_questions, response, requests_sent,
                   lines, idx, current_question, questions>>
    /\ UNCHANGED graderVars
    /\ UNCHANGED <<routeVars, testVars, deckVars, raceVars>>

\* lines 81-103: requests.post answers or raises
Post(r) ==
    /\ pc = "post"
    /\ response' = r
    /\ requests_sent' = requests_sent + 1
    /\ IF r.outcome = "network_error"
       THEN Raise("ConnectionError")
       ELSE /\ pc' = "raise_for_status"
            /\ UNCHANGED result
    /\ UNCHANGED <<flashcards, num_questions,
                   lines, idx, current_question, questions>>
    /\ UNCHANGED graderVars
    /\ UNCHANGED <<routeVars, testVars, deckVars, raceVars>>

\* line 104
RaiseForStatus ==
    /\ pc = "raise_for_status"
    /\ IF response.outcome = "http_error"
       THEN Raise("HTTPError")
       ELSE /\ pc' = "json"
            /\ UNCHANGED result
    /\ UNCHANGED <<flashcards, num_questions, response, requests_sent,
                   lines, idx, current_question, questions>>
    /\ UNCHANGED graderVars
    /\ UNCHANGED <<routeVars, testVars, deckVars, raceVars>>

\* line 105
DecodeJson ==
    /\ pc = "json"
    /\ IF response.outcome = "undecodable"
       THEN Raise("JSONDecodeError")
       ELSE /\ pc' = "extract"
            /\ UNCHANGED result
    /\ UNCHANGED <<flashcards, num_questions, response, requests_sent,
                   lines, idx, current_question, questions>>
    /\ UNCHANGED graderVars
    /\ UNCHANGED <<routeVars, testVars, deckVars, raceVars>>

\* lines 108-116
ExtractContent ==
    /\ pc = "extract"
    /\ LET out == ExtractOutcome(response)
       IN  CASE out = "fallback" ->
                    /\ pc' = "ret109"
                    /\ result' = Returned(fallback_question_generation(
                                              flashcards, num_questions))
                    /\ UNCHANGED <<lines, idx>>
             [] out = "content" ->
                    /\ pc' = "scan"
                    /\ lines' = SplitLines(Strip(response.content))
                    /\ idx' = 1
                    /\ UNCHANGED result
             [] OTHER ->
                    /\ Raise(out)
                    /\ UNCHANGED <<lines, idx>>
    /\ current_question' = <<>>
    /\ questions' = <<>>
    /\ UNCHANGED <<flashcards, num_questions, response, requests_sent>>
    /\ UNCHANGED graderVars
    /\ UNCHANGED <<routeVars, testVars, deckVars, raceVars>>

\* --- the scan of lines 116-129 ------------------------------------------
QTag == <<"Q", ":">>

ATag == <<"A", ":">>

IsQ(line) == StartsWith(line, QTag)

IsA(line) == StartsWith(line, ATag)

\* line[2:].strip()
Text(line) == Strip(SubSeq(line, 3, Len(line)))

Item(q, a) == [question |-> q, correct_answer |-> a]

\* Variants of NextQuestion: the pending question survives its answer;
\* a pending question is not replaced; a line that is neither Q: nor A:
\* clears the pending question.
NextQuestionKeep(line, cur) ==
    IF line = <<>> THEN cur
    ELSE IF IsQ(line) THEN Text(line)
    ELSE cur

NextQuestionFirstWins(line, cur) ==
    IF line = <<>> THEN cur
    ELSE IF IsQ(line) THEN (IF cur # <<>> THEN cur ELSE Text(line))
    ELSE IF IsA(line) /\ cur # <<>> THEN <<>>
    ELSE cur

NextQuestionResetOnOther(line, cur) ==
    IF line = <<>> THEN cur
    ELSE IF IsQ(line) THEN Text(line)
    ELSE IF IsA(line) /\ cur = <<>> THEN cur
    ELSE <<>>

\* current_question after one stripped line
NextQuestion(line, cur) ==
    IF line = <<>> THEN cur
    ELSE IF IsQ(line) THEN Text(line)
    ELSE IF IsA(line) /\ cur # <<>> THEN <<>>
    ELSE cur

\* Variant of NextQuestions: an A: line is paired whatever current_question is
NextQuestionsAlways(line, cur, qs) ==
    IF line # <<>> /\ ~IsQ(line) /\ IsA(line)
    THEN Append(qs, Item(cur, Text(line)))
    ELSE qs

\* questions after one stripped line
NextQuestions(line, cur, qs) ==
    IF line # <<>> /\ ~IsQ(line) /\ IsA(line) /\ cur # <<>>
    THEN Append(qs, Item(cur, Text(line)))
    ELSE qs

\* one iteration of the for loop of line 116
ScanLine ==
    /\ pc = "scan"
    /\ idx <= Len(lines)
    /\ LET line == Strip(lines[idx])
       IN  /\ current_question' = NextQuestion(line, current_question)
           /\ questions' = NextQuestions(line, current_question, questions)
    /\ idx' = idx + 1
    /\ UNCHANGED <<flashcards, num_questions, pc, response, requests_sent,
                   lines, result>>
    /\ UNCHANGED graderVars
    /\ UNCHANGED <<routeVars, testVars, deckVars, raceVars>>

\* Variants of Finish: a question still pending is emitted with an empty
\* answer; an empty list is returned as it is.
FinishFlush ==
    /\ pc = "scan"
    /\ idx > Len(lines)
    /\ questions' = IF current_question # <<>>
                    THEN Append(questions, Item(current_question, <<>>))
                    ELSE questions
    /\ IF questions' = <<>>
       THEN /\ pc' = "ret133"
            /\ result' = Returned(fallback_question_generation(
                                      flashcards, num_questions))
       ELSE /\ pc' = "ret135"
            /\ result' = Returned(SliceTo(questions', num_questions))
    /\ UNCHANGED <<flashcards, num_questions, response, requests_sent,
                   lines, idx, current_question>>
    /\ UNCHANGED graderVars
    /\ UNCHANGED <<routeVars, testVars, deckVars, raceVars>>

FinishNoFallback ==
    /\ pc = "scan"
    /\ idx > Len(lines)
    /\ pc' = IF questions = <<>> THEN "ret133" ELSE "ret135"
    /\ result' = Returned(SliceTo(questions, num_questions))
    /\ UNCHANGED <<flashcards, num_questions, response, requests_sent,
                   lines, idx, current_question, questions>>
    /\ UNCHANGED graderVars
    /\ UNCHANGED <<routeVars, testVars, deckVars, raceVars>>

\* lines 131-135, after the loop
Finish ==
    /\ pc = "scan"
    /\ idx > Len(lines)
    /\ IF questions = <<>>
       THEN /\ pc' = "ret133"
            /\ result' = Returned(fallback_question_generation(
                                      flashcards, num_questions))
       ELSE /\ pc' = "ret135"
            /\ result' = Returned(SliceTo(questions, num_questions))
    /\ UNCHANGED <<flashcards, num_questions, response, requests_sent,
                   lines, idx, current_question, questions>>
    /\ UNCHANGED graderVars
    /\ UNCHANGED <<routeVars, testVars, deckVars, raceVars>>

NextGen ==
    \/ Call
    \/ \E r \in Responses : Post(r)
    \/ RaiseForStatus
    \/ DecodeJson
    \/ ExtractContent
    \/ ScanLine
    \/ Finish

SpecGen == InitGen /\ [][NextGen]_vars

\* ------------------------------------------------------------------------
\* Properties of the scan
\* ------------------------------------------------------------------------
\* the stripped line the loop is about to look at
CurLine == Strip(lines[idx])

\* the loop body runs now
ScanStep == pc = "scan" /\ idx <= Len(lines) /\ idx' = idx + 1

\* the loop has looked at every line
ScanDone == pc \in {"ret133", "ret135"} \/ (pc = "scan" /\ idx > Len(lines))

StrippedLine(i) == Strip(lines[i])

\* alternating Q:/A: lines, every question with a text
WellFormed ==
    /\ Len(lines) > 0
    /\ Len(lines) % 2 = 0
    /\ \A i \in 1..Len(lines) :
          IF i % 2 = 1
          THEN IsQ(StrippedLine(i)) /\ Text(StrippedLine(i)) # <<>>
          ELSE IsA(StrippedLine(i))

\* C2: an A: line met while a question is pending appends exactly one item,
\* the pending question with the trimmed remainder of the line, at the end
\* of the list, and leaves no question pending; k alternating Q:/A: lines
\* yield their k pairs in order.
PairOnAnswer ==
    /\ [][(ScanStep /\ IsA(CurLine) /\ current_question # <<>>) =>
            /\ questions' = Append(questions,
                                   Item(current_question, Text(CurLine)))
            /\ current_question' = <<>>]_vars
    /\ []((ScanDone /\ WellFormed) =>
            questions = [k \in 1..(Len(lines) \div 2) |->
                            Item(Text(StrippedLine(2 * k - 1)),
                                 Text(StrippedLine(2 * k)))])

\* two alternating pairs were scanned and paired
TwoPairsScanned ==
    /\ pc = "scan"
    /\ idx > Len(lines)
    /\ Len(lines) = 4
    /\ WellFormed
    /\ Len(questions) = 2

\* the Q: lines that were replaced by a later Q: line before any A: line
Replaced ==
    {j \in 1..(idx - 1) :
        /\ j <= Len(lines)
        /\ IsQ(StrippedLine(j))
        /\ \E j2 \in (j + 1)..(idx - 1) :
              /\ j2 <= Len(lines)
              /\ IsQ(StrippedLine(j2))
              /\ \A m \in (j + 1)..(j2 - 1) : ~IsA(StrippedLine(m))}

\* the last Q: line before line i (0 when there is none)
LastQ(i) ==
    LET qs == {j \in 1..(i - 1) : IsQ(StrippedLine(j))}
    IN  IF qs = {} THEN 0 ELSE SetMax(qs)

\* C3: a Q: line met while a question is pending replaces it and emits
\* nothing; a replaced question is in no item; an item takes its question
\* from the last Q: line before its A: line.
LastQWins ==
    /\ [][(ScanStep /\ IsQ(CurLine) /\ current_question # <<>>) =>
            /\ current_question' = Text(CurLine)
            /\ questions' = questions]_vars
    /\ [][(ScanStep /\ Len(questions') > Len(questions)) =>
            /\ LastQ(idx) > 0
            /\ questions'[Len(questions')].question
                   = Text(StrippedLine(LastQ(idx)))]_vars
    /\ [](pc \in {"scan", "ret133", "ret135"} =>
            \A j \in Replaced : \A k \in 1..Len(questions) :
                questions[k].question # Text(StrippedLine(j)))

\* Q:, Q:, A: were scanned and the A: line got the second question
SecondQPaired ==
    /\ pc = "scan"
    /\ idx = 4
    /\ IsQ(StrippedLine(1))
    /\ Text(StrippedLine(1)) # <<>>
    /\ IsQ(StrippedLine(2))
    /\ IsA(StrippedLine(3))
    /\ questions = <<Item(Text(StrippedLine(2)), Text(StrippedLine(3)))>>

\* C4 as stated: every Q: line, whatever its remainder, makes the A: line
\* that follows it emit an item.
QAlwaysPending ==
    [][(ScanStep /\ idx > 1 /\ IsA(CurLine) /\ IsQ(StrippedLine(idx - 1))) =>
          Len(questions') = Len(questions) + 1]_vars

\* C4 as amended: a Q: line sets current_question to its trimmed remainder;
\* the A: line that follows it emits an item, with that remainder as the
\* question, exactly when the remainder is not empty.
QPendingIfText ==
    /\ [][(ScanStep /\ IsQ(CurLine)) =>
            current_question' = Text(CurLine)]_vars
    /\ [][(ScanStep /\ idx > 1 /\ IsA(CurLine)
                /\ IsQ(StrippedLine(idx - 1))) =>
            IF Text(StrippedLine(idx - 1)) # <<>>
            THEN questions' = Append(questions,
                                     Item(Text(StrippedLine(idx - 1)),
                                          Text(CurLine)))
            ELSE questions' = questions /\ current_question' = <<>>]_vars

\* a Q: line without text and the A: line after it were scanned: no item
EmptyQThenA ==
    /\ pc = "scan"
    /\ idx = 3
    /\ IsQ(StrippedLine(1))
    /\ Text(StrippedLine(1)) = <<>>
    /\ IsA(StrippedLine(2))
    /\ questions = <<>>
    /\ current_question = <<>>

\* C5: an A: line with no question pending, a blank line and a line that
\* starts with neither tag change neither the items nor the pending
\* question and raise nothing; no Q: line is paired twice.
NoOpLines ==
    /\ [][(ScanStep /\ (\/ CurLine = <<>>
                        \/ (IsA(CurLine) /\ current_question = <<>>)
                        \/ (~IsQ(CurLine) /\ ~IsA(CurLine)))) =>
            /\ questions' = questions
            /\ current_question' = current_question
            /\ pc' = "scan"
            /\ result' = result]_vars
    /\ [][(ScanStep /\ Len(questions') > Len(questions)) =>
            \A m \in (LastQ(idx) + 1)..(idx - 1) : ~IsA(StrippedLine(m))]_vars
    /\ [](\A k1, k2 \in 1..Len(questions) :
            k1 # k2 => questions[k1].question # questions[k2].question)

\* Q:, a line with neither tag, A:, A: were scanned: one item
OnePairAmongNoOps ==
    /\ pc = "scan"
    /\ idx = 5
    /\ IsQ(StrippedLine(1))
    /\ ~IsQ(StrippedLine(2))
    /\ ~IsA(StrippedLine(2))
    /\ IsA(StrippedLine(3))
    /\ IsA(StrippedLine(4))
    /\ questions = <<Item(Text(StrippedLine(1)), Text(StrippedLine(3)))>>
    /\ current_question = <<>>

\* ------------------------------------------------------------------------
\* Properties of what the generator returns
\* ------------------------------------------------------------------------
Terminal == {"ret52", "ret109", "ret133", "ret135", "ret139", "raised"}

\* the returns that hand out the fallback list
FallbackReturns == {"ret109", "ret133", "ret139"}

\* C6: a question still pending at the end of the input is in no item, of
\* the scan or of the result; a response that is one unanswered Q: line
\* yields no item and the fallback list is returned.
DanglingDiscarded ==
    /\ (pc \in {"ret133", "ret135"} /\ current_question # <<>>) =>
          /\ \A k \in 1..Len(questions) :
                questions[k].question # current_question
          /\ \A k \in 1..Len(result.value) :
                result.value[k].question # current_question
    /\ (pc \in {"ret133", "ret135"} /\ Len(lines) = 1
            /\ IsQ(StrippedLine(1))) =>
          /\ questions = <<>>
          /\ pc = "ret133"
          /\ result = Returned(fallback_question_generation(flashcards,
                                                            num_questions))

\* the response was one Q: line with a text, and the call has returned
OrphanQuestionReturned ==
    /\ pc = "ret133"
    /\ Len(lines) = 1
    /\ IsQ(StrippedLine(1))
    /\ current_question = Text(StrippedLine(1))
    /\ current_question # <<>>

\* C7: with more than n items scanned the first n are returned, in order;
\* with 1 to n items scanned all of them are returned (n is a count, n >= 0)
Truncation ==
    (pc \in Terminal /\ questions # <<>> /\ num_questions >= 0) =>
        /\ result.status = "returned"
        /\ IF Len(questions) > num_questions
           THEN result.value = [k \in 1..num_questions |-> questions[k]]
           ELSE result.value = questions

\* two items were scanned and one was asked for
TruncatedToOne ==
    /\ pc \in Terminal
    /\ Len(questions) = 2
    /\ num_questions = 1
    /\ Len(result.value) = 1

\* the decoded body has no choices: no such key, or an empty list
NoChoices ==
    /\ response.outcome = "decoded"
    /\ response.level = "choices"
    /\ response.kind \in {"absent", "empty_list"}

\* the body had a content string and its scan is over
ScanReturned ==
    /\ response.outcome = "decoded"
    /\ response.level = "content"
    /\ response.kind = "string"
    /\ pc \in Terminal

\* C8: when the scan of a received response yields no item, or the response
\* has no choices, the call returns the fallback list for the same
\* flashcards and n.
FallbackOnEmpty ==
    (pc \in Terminal /\ (NoChoices \/ (ScanReturned /\ questions = <<>>))) =>
        result = Returned(fallback_question_generation(flashcards,
                                                       num_questions))

\* a response of several lines gave no item and a non-empty list came back
EmptyScanFellBack ==
    /\ ScanReturned
    /\ questions = <<>>
    /\ Len(lines) >= 2
    /\ result.status = "returned"
    /\ result.value # <<>>

\* C9: the call never raises to its caller.
NeverRaises == result.status # "raised"

\* C10: the fallback list has min(n, len(flashcards)) items, and its i-th
\* item (from 0) is built from flashcards[i mod len(flashcards)]
\* (n is a count, n >= 0).
FallbackShape ==
    (pc \in FallbackReturns /\ num_questions >= 0) =>
        /\ flashcards # <<>>
        /\ result.status = "returned"
        /\ Len(result.value) = Min(num_questions, Len(flashcards))
        /\ \A i \in 0..(Len(result.value) - 1) :
              LET card == flashcards[(i % Len(flashcards)) + 1]
              IN  /\ result.value[i + 1].question
                        = FallbackPrefix \o card.front \o <<"?">>
                  /\ result.value[i + 1].correct_answer = card.back

\* the fallback was asked for more items than there are flashcards
FallbackCapped ==
    /\ pc \in FallbackReturns
    /\ Len(flashcards) = 2
    /\ num_questions > Len(flashcards)
    /\ Len(result.value) = 2

\* C11 as stated: asked for more items than there are flashcards, the
\* fallback has an item at index len(flashcards), built from flashcards[0].
FallbackWraps ==
    (pc \in FallbackReturns /\ num_questions > Len(flashcards)) =>
        /\ Len(result.value) > Len(flashcards)
        /\ result.value[Len(flashcards) + 1]
               = Item(FallbackPrefix \o flashcards[1].front \o <<"?">>,
                      flashcards[1].back)

\* C11 as amended: asked for more items than there are flashcards, the
\* fallback has one item per flashcard, item i built from flashcards[i],
\* and no item at index len(flashcards): the index never wraps around.
FallbackNoWrap ==
    (pc \in FallbackReturns /\ num_questions > Len(flashcards)) =>
        /\ result.status = "returned"
        /\ DOMAIN result.value = 1..Len(flashcards)
        /\ \A k \in 1..Len(flashcards) :
              result.value[k]
                  = Item(FallbackPrefix \o flashcards[k].front \o <<"?">>,
                         flashcards[k].back)

\* two flashcards, three items asked for, the request failed: two items
TwoCardsThreeAsked ==
    /\ pc = "ret139"
    /\ Len(flashcards) = 2
    /\ num_questions = 3
    /\ result.value
           = <<Item(FallbackPrefix \o <<"a", "?">>, <<"1">>),
               Item(FallbackPrefix \o <<"b", "?">>, <<"2">>)>>

\* C12: for every upstream outcome and every n >= 1 the call returns a
\* list, empty exactly when there are no flashcards, and then without a
\* request.
AlwaysUsableResult ==
    (pc \in Terminal /\ num_questions >= 1) =>
        /\ result.status = "returned"
        /\ (result.value = <<>>) <=> (flashcards = <<>>)
        /\ flashcards = <<>> => requests_sent = 0

\* C20: a call sends at most one request; every call that got past the
\* empty-flashcards return has sent exactly one when it ends, whatever the
\* response was.
AtMostOneRequest ==
    /\ requests_sent <= 1
    /\ pc \in (Terminal \ {"ret52"}) => requests_sent = 1
    /\ pc = "ret52" => requests_sent = 0

\* the one request got an error status and the fallback was returned
FailedOnceFellBack ==
    /\ pc = "ret139"
    /\ response.outcome = "http_error"
    /\ requests_sent = 1
    /\ result.value # <<>>

\* ------------------------------------------------------------------------
\* The test: PracticeTest and its questions
\* ------------------------------------------------------------------------
\* most questions added to one test
MaxQuestions == 2

\* latest time datetime.now() returns
MaxTime == 2

\* no generator call is in progress
GenIdle ==
    /\ flashcards = <<>>
    /\ num_questions = 0
    /\ pc = "idle"
    /\ response = Response("none", "none", "none", <<>>)
    /\ requests_sent = 0
    /\ lines = <<>>
    /\ idx = 0
    /\ current_question = <<>>
    /\ questions = <<>>
    /\ result = [status |-> "none", value |-> <<>>, exc |-> "none"]

\* reference answers of the questions added to a test
TestReferences == {<<"a">>, Rep(<<"a", "b">>, 3)}

\* answers submitted to a test
TestAnswers ==
    {<<"A", " ">>, <<"a", "b">>, <<"a", "b", "a", "b", "a", "x", "b">>}

\* PracticeTestQuestion(question=q, correct_answer=a) with a fresh id
PracticeTestQuestion(id, q, a) ==
    [id |-> id, question |-> q, correct_answer |-> a,
     user_answer |-> None, is_correct |-> "None"]

\* PracticeTestQuestion.submit_answer on the question q
\* (question_submit_answerNormalized is the variant that records the
\* normalized answer)
question_submit_answerNormalized(q, ans) ==
    [q EXCEPT !.user_answer = normalize(ans),
              !.is_correct = BoolStr(Grade(ans, q.correct_answer))]

\* (question_submit_answerVerdictOnly is the variant that records the
\* verdict without the answer)
question_submit_answerVerdictOnly(q, ans) ==
    [q EXCEPT !.is_correct = BoolStr(Grade(ans, q.correct_answer))]

question_submit_answer(q, ans) ==
    [q EXCEPT !.user_answer = ans,
              !.is_correct = BoolStr(Grade(ans, q.correct_answer))]

\* (get_questionOrFirst is the variant that falls back on the first
\* question)
get_questionOrFirst(qs, qid) ==
    IF \E i \in 1..Len(qs) : qs[i].id = qid
    THEN SetMin({i \in 1..Len(qs) : qs[i].id = qid})
    ELSE IF Len(qs) > 0 THEN 1 ELSE 0

\* get_question: the position of the first question with this id, 0 for
\* Python's None
get_question(qs, qid) ==
    IF \E i \in 1..Len(qs) : qs[i].id = qid
    THEN SetMin({i \in 1..Len(qs) : qs[i].id = qid})
    ELSE 0

\* the ids a client may send: those handed out so far, and 0, which is
\* never handed out
QuestionIds == 0..(next_id - 1)

\* PracticeTest(deck_id, deck_name): no questions yet
InitTest ==
    /\ GraderIdle
    /\ GenIdle
    /\ RouteIdle
    /\ test_questions = <<>>
    /\ next_id = 1
    /\ last_call = NoCall
    /\ is_completed = FALSE
    /\ completed_at = <<>>
    /\ score = <<>>
    /\ now = 0
    /\ DeckIdle
    /\ RaceIdle

add_question(q, a) ==
    /\ Len(test_questions) < MaxQuestions
    /\ test_questions' = Append(test_questions,
                                PracticeTestQuestion(next_id, q, a))
    /\ next_id' = next_id + 1
    /\ last_call' = [op |-> "add_question", qid |-> next_id, ans |-> <<>>,
                     ret |-> "None"]
    /\ UNCHANGED <<is_completed, completed_at, score, now>>
    /\ UNCHANGED <<graderVars, genVars, routeVars, deckVars, raceVars>>

PracticeTest_submit_answer(qid, ans) ==
    LET i == get_question(test_questions, qid)
    IN  /\ IF i # 0
           THEN /\ test_questions'
                       = [test_questions EXCEPT
                             ![i] = question_submit_answer(@, ans)]
                /\ last_call' = [op |-> "submit_answer", qid |-> qid,
                                 ans |-> ans,
                                 ret |-> test_questions'[i].is_correct]
           ELSE /\ UNCHANGED test_questions
                /\ last_call' = [op |-> "submit_answer", qid |-> qid,
                                 ans |-> ans, ret |-> "False"]
        /\ UNCHANGED <<next_id, is_completed, completed_at, score, now>>
        /\ UNCHANGED <<graderVars, genVars, routeVars, deckVars, raceVars>>

\* sum(1 for q in self.questions if q.is_correct is v)
CountVerdict(qs, v) == Cardinality({i \in 1..Len(qs) : qs[i].is_correct = v})

\* get_score: the cached score, or (correct_count / total_questions) * 100
\* as the fraction num/den, 0.0 for a test without questions
get_score ==
    IF score # <<>> THEN score[1]
    ELSE IF Len(test_questions) = 0 THEN [num |-> 0, den |-> 1]
    ELSE [num |-> 100 * CountVerdict(test_questions, "True"),
          den |-> Len(test_questions)]

\* get_progress
get_progress ==
    LET total == Len(test_questions)
        answered == Cardinality({i \in 1..Len(test_questions) :
                                    test_questions[i].user_answer # None})
    IN  [total_questions |-> total,
         answered |-> answered,
         correct |-> CountVerdict(test_questions, "True"),
         incorrect |-> CountVerdict(test_questions, "False"),
         unanswered |-> total - answered,
         score |-> get_score]

\* Variant of complete_test without the early return of a completed test
complete_testAgain ==
    /\ is_completed' = TRUE
    /\ completed_at' = <<now>>
    /\ score' = <<get_score>>
    /\ last_call' = [op |-> "complete_test", qid |-> 0, ans |-> <<>>,
                     ret |-> "None"]
    /\ UNCHANGED <<test_questions, next_id, now>>
    /\ UNCHANGED <<graderVars, genVars, routeVars, deckVars, raceVars>>

complete_test ==
    /\ IF is_completed
       THEN UNCHANGED <<is_completed, completed_at, score>>
       ELSE /\ is_completed' = TRUE
            /\ completed_at' = <<now>>
            /\ score' = <<get_score>>
    /\ last_call' = [op |-> "complete_test", qid |-> 0, ans |-> <<>>,
                     ret |-> "None"]
    /\ UNCHANGED <<test_questions, next_id, now>>
    /\ UNCHANGED <<graderVars, genVars, routeVars, deckVars, raceVars>>

\* time passes between two calls
Tick ==
    /\ now < MaxTime
    /\ now' = now + 1
    /\ UNCHANGED <<test_questions, next_id, last_call, is_completed,
                   completed_at, score>>
    /\ UNCHANGED <<graderVars, genVars, routeVars, deckVars, raceVars>>

NextTest ==
    \/ \E a \in TestReferences : add_question(<<"q">>, a)
    \/ \E qid \in QuestionIds, ans \in TestAnswers :
           PracticeTest_submit_answer(qid, ans)
    \/ complete_test
    \/ Tick

SpecTest == InitTest /\ [][NextTest]_vars

\* ------------------------------------------------------------------------
\* C18: submit_answer on a question changes only that question's
\* user_answer, which becomes the submitted string as it was sent, and its
\* is_correct, which becomes the verdict returned; the question's id, text
\* and correct_answer and every other question stay as they were; and the
\* verdict is a function of the submitted string and the reference answer
\* alone, also when the question already had an answer.
\* ------------------------------------------------------------------------
\* the verdict of the grading rule on an answer and a reference
RuleVerdict(ans, ref) ==
    LET u == normalize(ans)
        c == normalize(ref)
    IN  BoolStr(u = c \/ 40 * Matches(u, c) >= 17 * (Len(u) + Len(c)))

SubmitFrame ==
    [][last_call'.op = "submit_answer" =>
          LET i == get_question(test_questions, last_call'.qid)
          IN  /\ next_id' = next_id
              /\ Len(test_questions') = Len(test_questions)
              /\ \A k \in 1..Len(test_questions) :
                     k # i => test_questions'[k] = test_questions[k]
              /\ i # 0 =>
                     /\ test_questions'[i].id = test_questions[i].id
                     /\ test_questions'[i].question
                            = test_questions[i].question
                     /\ test_questions'[i].correct_answer
                            = test_questions[i].correct_answer
                     /\ test_questions'[i].user_answer = last_call'.ans
                     /\ test_questions'[i].is_correct = last_call'.ret
                     /\ last_call'.ret
                            = RuleVerdict(last_call'.ans,
                                          test_questions[i].correct_answer)
    ]_vars

\* the second question's answer was recorded as sent, with a capital and a
\* blank, and accepted, next to a first question whose rejected answer
\* stayed
VerbatimRecorded ==
    /\ Len(test_questions) = 2
    /\ last_call.op = "submit_answer"
    /\ last_call.qid = test_questions[2].id
    /\ last_call.ret = "True"
    /\ test_questions[2].user_answer = <<"A", " ">>
    /\ test_questions[2].is_correct = "True"
    /\ normalize(test_questions[2].user_answer)
           # test_questions[2].user_answer
    /\ test_questions[1].user_answer = <<"a", "b">>
    /\ test_questions[1].is_correct = "False"

\* ------------------------------------------------------------------------
\* The route: create_practice_test (POST /api/practice-tests)
\* ------------------------------------------------------------------------
\* data.get('num_questions', 10)
DefaultCount == 10

\* "ok" is a request of a logged-in user that names a deck of theirs
RequestKinds == {"ok", "not_logged_in", "no_deck_id", "deck_missing"}

\* the request and whether the module's ai_service was constructed; a body
\* without num_questions is a request for DefaultCount questions
Requests ==
    [kind : RequestKinds, ai_service : BOOLEAN,
     requested : ((-1)..MaxN) \cup {DefaultCount}]

\* the methods class StorageManager defines
StorageManagerMethods ==
    {"ensure_data_directory", "load_data", "save_data", "_get_default_data",
     "get_user", "create_user", "save_user", "user_exists", "load_decks",
     "save_decks", "get_deck_by_id", "add_deck", "update_deck",
     "delete_deck", "add_card_to_deck"}

InitRoute ==
    /\ GraderIdle
    /\ GenIdle
    /\ TestIdle
    /\ DeckIdle
    /\ RaceIdle
    /\ deck_cards \in FlashcardLists
    /\ request \in Requests
    /\ rpc = "start"
    /\ http_status = 0
    /\ stored_tests = <<>>

\* the status of the early returns, 0 when the request gets past them
RejectStatus ==
    IF request.kind = "not_logged_in" THEN 401
    ELSE IF ~request.ai_service THEN 503
    ELSE IF request.kind = "no_deck_id" THEN 400
    ELSE IF request.kind = "deck_missing" THEN 404
    ELSE IF Len(deck_cards) = 0 THEN 400
    ELSE 0

\* login_required and lines 394-424: the early returns
create_practice_test_reject ==
    /\ rpc = "start"
    /\ RejectStatus # 0
    /\ http_status' = RejectStatus
    /\ rpc' = "done"
    /\ UNCHANGED <<deck_cards, request, stored_tests>>
    /\ UNCHANGED <<graderVars, genVars, testVars, deckVars, raceVars>>

\* lines 427-430: the generator is called with the capped count
create_practice_test_generate ==
    /\ rpc = "start"
    /\ RejectStatus = 0
    /\ flashcards' = deck_cards
    /\ num_questions' = Min(request.requested, Len(deck_cards) * 2)
    /\ pc' = "call"
    /\ rpc' = "generating"
    /\ UNCHANGED <<response, requests_sent, lines, idx, current_question,
                   questions, result>>
    /\ UNCHANGED <<deck_cards, request, http_status, stored_tests>>
    /\ UNCHANGED <<graderVars, testVars, deckVars, raceVars>>

\* the questions of PracticeTest(...) after add_question for every item
AddedQuestions(items) ==
    [k \in 1..Len(items) |->
        PracticeTestQuestion(next_id + k - 1, items[k].question,
                             items[k].correct_answer)]

\* lines 433-440, or line 449 when the generator raised
create_practice_test_build ==
    /\ rpc = "generating"
    /\ pc \in Terminal
    /\ IF result.status = "raised"
       THEN /\ http_status' = 500
            /\ rpc' = "done"
            /\ UNCHANGED testVars
       ELSE /\ test_questions' = AddedQuestions(result.value)
            /\ next_id' = next_id + Len(result.value)
            /\ last_call' = IF result.value = <<>> THEN last_call
                            ELSE [op |-> "add_question",
                                  qid |-> next_id + Len(result.value) - 1,
                                  ans |-> <<>>, ret |-> "None"]
            /\ rpc' = "built"
            /\ UNCHANGED <<http_status, is_completed, completed_at, score,
                           now>>
    /\ UNCHANGED <<deck_cards, request, stored_tests>>
    /\ UNCHANGED <<graderVars, genVars, deckVars, raceVars>>

\* lines 443-453: storage.add_practice_test(username, practice_test); a
\* method the storage object does not have is an AttributeError, which
\* the handler of line 449 answers
create_practice_test_store ==
    /\ rpc = "built"
    /\ IF "add_practice_test" \in StorageManagerMethods
       THEN /\ stored_tests' = Append(stored_tests, test_questions)
            /\ http_status' = 201
       ELSE /\ UNCHANGED stored_tests
            /\ http_status' = 500
    /\ rpc' = "done"
    /\ UNCHANGED <<deck_cards, request>>
    /\ UNCHANGED <<graderVars, genVars, testVars, deckVars, raceVars>>

NextRoute ==
    \/ create_practice_test_reject
    \/ create_practice_test_generate
    \/ NextGen
    \/ create_practice_test_build
    \/ create_practice_test_store

SpecRoute == InitRoute /\ [][NextRoute]_vars

\* ------------------------------------------------------------------------
\* C13: the number of questions produced for a test is at least 0 and at
\* most min(requested count, 2 x cards of the deck), on the parsed path
\* and on the fallback path, for every requested count; for a count
\* below 0 the upper limit is read as 0.
\* ------------------------------------------------------------------------
QuestionCountBounded ==
    rpc = "built" =>
        LET limit == Min(request.requested, Len(deck_cards) * 2)
        IN  Len(test_questions) <= (IF limit > 0 THEN limit ELSE 0)

\* ------------------------------------------------------------------------
\* C14: with the service configured, a request of a logged-in user for a
\* deck of theirs with at least one card ends with a test created and
\* stored, whatever the language model call did; with no cards it is
\* rejected before the generator is called and no test is created.
\* ------------------------------------------------------------------------
CreateSucceeds ==
    (rpc = "done" /\ request.kind = "ok" /\ request.ai_service) =>
        IF Len(deck_cards) = 0
        THEN /\ http_status \notin {0, 201}
             /\ pc = "idle"
             /\ requests_sent = 0
             /\ stored_tests = <<>>
        ELSE /\ http_status = 201
             /\ Len(stored_tests) = 1

\* ------------------------------------------------------------------------
\* C21: completing a test is one-way and idempotent. The first
\* complete_test sets is_completed, completed_at and score together, the
\* score being 100 * correct / total questions, 0 for a test without
\* questions, with unanswered questions not correct; after it no call
\* changes is_completed, completed_at or what get_score returns; and in
\* every state is_completed holds exactly when score is set and exactly
\* when completed_at is set.
\* ------------------------------------------------------------------------
SameValue(a, b) == a.num * b.den = b.num * a.den

CompletionConsistent ==
    /\ is_completed <=> score # <<>>
    /\ is_completed <=> completed_at # <<>>

CompleteOnce ==
    /\ []CompletionConsistent
    /\ [][/\ is_completed =>
                /\ is_completed'
                /\ completed_at' = completed_at
                /\ SameValue(get_score', get_score)
          /\ (~is_completed /\ is_completed') =>
                /\ completed_at' = <<now>>
                /\ score' # <<>>
                /\ IF Len(test_questions) = 0
                   THEN score'[1].num = 0
                   ELSE score'[1].num * Len(test_questions)
                            = 100 * CountVerdict(test_questions, "True")
                                  * score'[1].den
       ]_vars

\* a test completed with one of its two questions right was completed
\* again later, and its other question answered right after that
CompletedStays ==
    /\ is_completed
    /\ Len(test_questions) = 2
    /\ SameValue(score[1], [num |-> 50, den |-> 1])
    /\ completed_at = <<0>>
    /\ now = 2
    /\ CountVerdict(test_questions, "True") = 2

\* ------------------------------------------------------------------------
\* C23: PracticeTest.submit_answer with an id that no question of the
\* test has returns false and changes no question and no field of the
\* test.
\* ------------------------------------------------------------------------
UnknownIdNoEffect ==
    [][(/\ last_call'.op = "submit_answer"
        /\ \A k \in 1..Len(test_questions) :
               test_questions[k].id # last_call'.qid) =>
          /\ last_call'.ret = "False"
          /\ UNCHANGED <<test_questions, next_id, is_completed,
                         completed_at, score>>
    ]_vars

\* an answer for an id of no question came back false on a test with an
\* answered and an unanswered question
UnknownIdRejected ==
    /\ last_call.op = "submit_answer"
    /\ last_call.qid = 0
    /\ last_call.ans = <<"A", " ">>
    /\ last_call.ret = "False"
    /\ Len(test_questions) = 2
    /\ test_questions[1].is_correct = "True"
    /\ test_questions[2].user_answer = None

\* ------------------------------------------------------------------------
\* C24: after any add_question and submit_answer calls every question has
\* user_answer unset exactly when is_correct is unset, and get_progress
\* has answered = correct + incorrect, unanswered = total_questions -
\* answered and 0 <= answered <= total_questions.
\* ------------------------------------------------------------------------
ProgressConsistent ==
    /\ \A k \in 1..Len(test_questions) :
           (test_questions[k].user_answer = None)
               <=> (test_questions[k].is_correct = "None")
    /\ get_progress.answered
           = get_progress.correct + get_progress.incorrect
    /\ get_progress.unanswered
           = get_progress.total_questions - get_progress.answered
    /\ 0 <= get_progress.answered
    /\ get_progress.answered <= get_progress.total_questions

\* one question answered right and one not answered
ProgressMixed ==
    /\ get_progress.total_questions = 2
    /\ get_progress.correct = 1
    /\ get_progress.incorrect = 0
    /\ get_progress.unanswered = 1

\* ------------------------------------------------------------------------
\* The card routes: add_card_to_deck, delete_card, record_study_result
\* ------------------------------------------------------------------------
\* most cards in the deck
MaxDeckCards == 2

\* most add-card requests
MaxAdds == 2

\* most study requests, and most results in one of them
MaxSessions == 2

MaxResults == 2

CardRequestKinds == {"ok", "not_logged_in", "bad_body", "deck_missing"}

\* Flashcard(front, back) with a fresh id
Flashcard(id, front, back) ==
    [id |-> id, front |-> front, back |-> back,
     times_studied |-> 0, correct_count |-> 0, incorrect_count |-> 0]

\* Variant of Flashcard.record_study_result that counts a card as studied
\* only when the answer was right
Flashcard_record_study_resultCorrectOnly(card, ok) ==
    IF ok
    THEN [card EXCEPT !.times_studied = @ + 1, !.correct_count = @ + 1]
    ELSE [card EXCEPT !.incorrect_count = @ + 1]

\* Flashcard.record_study_result
Flashcard_record_study_result(card, ok) ==
    IF ok
    THEN [card EXCEPT !.times_studied = @ + 1, !.correct_count = @ + 1]
    ELSE [card EXCEPT !.times_studied = @ + 1, !.incorrect_count = @ + 1]

\* Deck.get_card: the position of the first card with this id, 0 for None
Deck_get_card(cs, card_id) ==
    IF \E i \in 1..Len(cs) : cs[i].id = card_id
    THEN SetMin({i \in 1..Len(cs) : cs[i].id = card_id})
    ELSE 0

\* Deck.remove_card: the cards without the first one with this id
Deck_remove_card(cs, card_id) ==
    LET i == Deck_get_card(cs, card_id)
    IN  IF i = 0 THEN cs
        ELSE SubSeq(cs, 1, i - 1) \o SubSeq(cs, i + 1, Len(cs))

RECURSIVE SeqSum(_)
SeqSum(ns) == IF ns = <<>> THEN 0 ELSE Head(ns) + SeqSum(Tail(ns))

\* Deck.get_study_stats, the counts
get_study_stats(cs) ==
    [total_cards |-> Len(cs),
     total_studied |-> SeqSum([k \in 1..Len(cs) |-> cs[k].times_studied]),
     total_correct |-> SeqSum([k \in 1..Len(cs) |-> cs[k].correct_count]),
     total_incorrect |->
         SeqSum([k \in 1..Len(cs) |-> cs[k].incorrect_count])]

\* the loop of record_study_result over data['results']
RECURSIVE ApplyResults(_, _)
ApplyResults(cs, results) ==
    IF results = <<>> THEN cs
    ELSE LET i == Deck_get_card(cs, Head(results).card_id)
         IN  ApplyResults(
                 IF i = 0 THEN cs
                 ELSE [cs EXCEPT ![i] = Flashcard_record_study_result(
                                            @, Head(results).is_correct)],
                 Tail(results))

\* the ids handed out so far, and 0, which is never handed out
CardIds == 0..(next_uuid - 1)

\* the ids a study request names: those of the deck's cards, and 0
StudyIds == {0} \cup {stored_cards[k].id : k \in 1..Len(stored_cards)}

StudyResults ==
    UNION {[1..n -> [card_id : StudyIds, is_correct : BOOLEAN]] :
              n \in 0..MaxResults}

Reply(route, status, card_id, results) ==
    [route |-> route, status |-> status, card_id |-> card_id,
     results |-> results]

\* a user with one deck without cards
InitDeck ==
    /\ GraderIdle
    /\ GenIdle
    /\ RouteIdle
    /\ TestIdle
    /\ RaceIdle
    /\ stored_cards = <<>>
    /\ next_uuid = 1
    /\ reply = NoReply
    /\ user_stats = NoStats

\* POST /api/decks/<deck_id>/cards
add_card_to_deck(kind, front, back) ==
    /\ Len(stored_cards) < MaxDeckCards
    /\ next_uuid < 2 * MaxAdds
    /\ IF kind = "not_logged_in"
       THEN /\ reply' = Reply("add_card", 401, 0, <<>>)
            /\ UNCHANGED <<stored_cards, next_uuid>>
       ELSE IF kind = "bad_body"
       THEN /\ reply' = Reply("add_card", 400, 0, <<>>)
            /\ UNCHANGED <<stored_cards, next_uuid>>
       ELSE IF kind = "deck_missing"
       THEN \* the route's Flashcard takes an id, the deck is not found
            /\ reply' = Reply("add_card", 404, 0, <<>>)
            /\ next_uuid' = next_uuid + 1
            /\ UNCHANGED stored_cards
       ELSE \* the route's Flashcard takes one id; Deck.add_card builds a
            \* Flashcard of its own, with the next id, and stores that one
            /\ stored_cards' = Append(stored_cards,
                                      Flashcard(next_uuid + 1, front, back))
            /\ reply' = Reply("add_card", 201, next_uuid, <<>>)
            /\ next_uuid' = next_uuid + 2
    /\ UNCHANGED user_stats
    /\ UNCHANGED <<graderVars, genVars, routeVars, testVars, raceVars>>

\* DELETE /api/cards/<card_id>
delete_card(kind, card_id) ==
    /\ IF kind = "not_logged_in"
       THEN /\ reply' = Reply("delete_card", 401, 0, <<>>)
            /\ UNCHANGED stored_cards
       ELSE IF Deck_get_card(stored_cards, card_id) = 0
       THEN /\ reply' = Reply("delete_card", 404, card_id, <<>>)
            /\ UNCHANGED stored_cards
       ELSE /\ stored_cards' = Deck_remove_card(stored_cards, card_id)
            /\ reply' = Reply("delete_card", 200, card_id, <<>>)
    /\ UNCHANGED <<next_uuid, user_stats>>
    /\ UNCHANGED <<graderVars, genVars, routeVars, testVars, raceVars>>

\* POST /api/study/<deck_id>
record_study_result(kind, results) ==
    /\ user_stats.total_study_sessions < MaxSessions
    /\ IF kind = "not_logged_in"
       THEN /\ reply' = Reply("study", 401, 0, results)
            /\ UNCHANGED <<stored_cards, user_stats>>
       ELSE IF kind = "bad_body"
       THEN /\ reply' = Reply("study", 400, 0, <<>>)
            /\ UNCHANGED <<stored_cards, user_stats>>
       ELSE IF kind = "deck_missing"
       THEN /\ reply' = Reply("study", 404, 0, results)
            /\ UNCHANGED <<stored_cards, user_stats>>
       ELSE /\ stored_cards' = ApplyResults(stored_cards, results)
            /\ LET correct ==
                       Cardinality({j \in 1..Len(results) :
                                       results[j].is_correct})
               IN  user_stats' =
                       [total_study_sessions |->
                            user_stats.total_study_sessions + 1,
                        total_cards_studied |->
                            user_stats.total_cards_studied + Len(results),
                        total_correct |-> user_stats.total_correct + correct,
                        total_incorrect |->
                            user_stats.total_incorrect
                                + (Len(results) - correct)]
            /\ reply' = Reply("study", 200, 0, results)
    /\ UNCHANGED next_uuid
    /\ UNCHANGED <<graderVars, genVars, routeVars, testVars, raceVars>>

NextDeck ==
    \/ \E kind \in CardRequestKinds :
           add_card_to_deck(kind, <<"a">>, <<"1">>)
    \/ \E kind \in {"ok", "not_logged_in"}, card_id \in CardIds :
           delete_card(kind, card_id)
    \/ \E kind \in CardRequestKinds :
           \E results \in (IF kind = "ok" THEN StudyResults ELSE {<<>>}) :
               record_study_result(kind, results)

SpecDeck == InitDeck /\ [][NextDeck]_vars

\* ------------------------------------------------------------------------
\* C25: the card in the response of an add-card request is the card
\* stored in the deck: its id is the id of a card of the deck in storage,
\* so a delete-card request with that id finds the card.
\* ------------------------------------------------------------------------
ReturnedCardStored ==
    (reply.route = "add_card" /\ reply.status = 201) =>
        Deck_get_card(stored_cards, reply.card_id) # 0

\* ------------------------------------------------------------------------
\* C27: every flashcard has times_studied = correct_count +
\* incorrect_count, every recorded result raises the times_studied of its
\* card by exactly one, and so get_study_stats has total_studied =
\* total_correct + total_incorrect.
\* ------------------------------------------------------------------------
\* the results of the request that name the card, right ones or wrong ones
ResultsFor(results, card_id, ok) ==
    Cardinality({j \in 1..Len(results) :
                    /\ results[j].card_id = card_id
                    /\ results[j].is_correct = ok})

StudyCountsConsistent ==
    /\ \A k \in 1..Len(stored_cards) :
           stored_cards[k].times_studied
               = stored_cards[k].correct_count
                     + stored_cards[k].incorrect_count
    /\ get_study_stats(stored_cards).total_studied
           = get_study_stats(stored_cards).total_correct
                 + get_study_stats(stored_cards).total_incorrect

StudyCounts ==
    /\ []StudyCountsConsistent
    /\ [][(reply'.route = "study" /\ reply'.status = 200) =>
             /\ Len(stored_cards') = Len(stored_cards)
             /\ \A k \in 1..Len(stored_cards) :
                    LET id == stored_cards[k].id
                        right == ResultsFor(reply'.results, id, TRUE)
                        wrong == ResultsFor(reply'.results, id, FALSE)
                    IN  /\ stored_cards'[k].id = id
                        /\ stored_cards'[k].times_studied
                               = stored_cards[k].times_studied
                                     + right + wrong
                        /\ stored_cards'[k].correct_count
                               = stored_cards[k].correct_count + right
                        /\ stored_cards'[k].incorrect_count
                               = stored_cards[k].incorrect_count + wrong
       ]_vars

\* after two study requests one card was studied three times, once with a
\* wrong answer, and the other card once
StudiedTwice ==
    /\ Len(stored_cards) = 2
    /\ reply.route = "study"
    /\ reply.status = 200
    /\ user_stats.total_study_sessions = 2
    /\ stored_cards[1].times_studied = 3
    /\ stored_cards[1].incorrect_count = 1
    /\ stored_cards[2].times_studied = 1
    /\ get_study_stats(stored_cards).total_studied = 4

\* ------------------------------------------------------------------------
\* Concurrent requests of one user: StorageManager.add_deck, update_deck
\* and delete_deck, each a load of the data file, a change of the loaded
\* copy and a save; the server handles requests in threads and the
\* storage takes no lock
\* ------------------------------------------------------------------------
\* requests in flight at once
MaxRequests == 2

Requesters == 1..MaxRequests

DeckRecord(id, name) == [id |-> id, name |-> name]

\* the user's decks in the data file before the requests: request p
\* updates deck p and deletes deck MaxRequests + p
InitialDecks ==
    [k \in 1..(2 * MaxRequests) |-> DeckRecord(k, "old")]

\* what request p asks for
Operations(p) ==
    {[op |-> "add_deck", deck |-> DeckRecord(2 * MaxRequests + p, "new")],
     [op |-> "update_deck", deck |-> DeckRecord(p, "new")],
     [op |-> "delete_deck", deck |-> DeckRecord(MaxRequests + p, "old")]}

\* User.get_deck / the loop of update_deck: the position of the deck
IndexOfDeck(ds, id) ==
    IF \E i \in 1..Len(ds) : ds[i].id = id
    THEN SetMin({i \in 1..Len(ds) : ds[i].id = id})
    ELSE 0

\* the change the operation makes to the loaded user's decks
ChangedDecks(ds, o) ==
    LET i == IndexOfDeck(ds, o.deck.id)
    IN  IF o.op = "add_deck" THEN Append(ds, o.deck)
        ELSE IF i = 0 THEN ds
        ELSE IF o.op = "update_deck" THEN [ds EXCEPT ![i] = o.deck]
        ELSE SubSeq(ds, 1, i - 1) \o SubSeq(ds, i + 1, Len(ds))

InitRace ==
    /\ GraderIdle
    /\ GenIdle
    /\ RouteIdle
    /\ TestIdle
    /\ DeckIdle
    /\ file_decks = InitialDecks
    /\ proc \in {f \in [Requesters ->
                          [op : {"add_deck", "update_deck", "delete_deck"},
                           deck : {DeckRecord(k, n) :
                                      k \in 1..(3 * MaxRequests),
                                      n \in {"old", "new"}},
                           pc : {"get_user"},
                           user_decks : {<<>>},
                           ret : {"None"}]] :
                    \A p \in Requesters :
                        [op |-> f[p].op, deck |-> f[p].deck]
                            \in Operations(p)}

\* get_user: load_data and User.from_dict, then the change on the loaded
\* user; update_deck and delete_deck return False when the deck is not
\* among the loaded ones
get_user(p) ==
    /\ proc[p].pc = "get_user"
    /\ LET o == [op |-> proc[p].op, deck |-> proc[p].deck]
           found == IndexOfDeck(file_decks, o.deck.id) # 0
       IN  IF o.op = "add_deck" \/ found
           THEN proc' = [proc EXCEPT
                            ![p].user_decks = ChangedDecks(file_decks, o),
                            ![p].pc = "save_user"]
           ELSE proc' = [proc EXCEPT ![p].user_decks = file_decks,
                                     ![p].ret = "False",
                                     ![p].pc = "done"]
    /\ UNCHANGED file_decks
    /\ UNCHANGED <<graderVars, genVars, routeVars, testVars, deckVars>>

\* save_user, line 71: the data file is loaded again
save_user(p) ==
    /\ proc[p].pc = "save_user"
    /\ proc' = [proc EXCEPT ![p].pc = "save_data"]
    /\ UNCHANGED file_decks
    /\ UNCHANGED <<graderVars, genVars, routeVars, testVars, deckVars>>

\* save_user, lines 74-75: the user's entry is replaced by the request's
\* copy and the file is written
save_data(p) ==
    /\ proc[p].pc = "save_data"
    /\ file_decks' = proc[p].user_decks
    /\ proc' = [proc EXCEPT ![p].ret = "True", ![p].pc = "done"]
    /\ UNCHANGED <<graderVars, genVars, routeVars, testVars, deckVars>>

NextRace ==
    \E p \in Requesters :
        \/ get_user(p)
        \/ save_user(p)
        \/ save_data(p)

SpecRace == InitRace /\ [][NextRace]_vars

\* ------------------------------------------------------------------------
\* C26: when the load and save steps of two requests of one user
\* interleave, the stored data after both have returned success holds
\* the effect of both operations.
\* ------------------------------------------------------------------------
\* the operation of request p shows in the stored decks
EffectStored(p) ==
    LET i == IndexOfDeck(file_decks, proc[p].deck.id)
    IN  IF proc[p].op = "delete_deck" THEN i = 0
        ELSE i # 0 /\ file_decks[i] = proc[p].deck

NoLostUpdate ==
    (\A p \in Requesters : proc[p].pc = "done" /\ proc[p].ret = "True") =>
        \A p \in Requesters : EffectStored(p)

====
